---- MODULE Spec2Model ----
(***************************************************************************)
(* ccg-gateway: the request-forwarding engine and its health-routing loop.  *)
(*                                                                         *)
(* Every request is one asyncio task.  A task runs without interruption    *)
(* between two awaits, so each action below is the code between two awaits *)
(* that touch shared state (the config database, the log database, the     *)
(* lock table, the clock).                                                 *)
(*                                                                         *)
(* The specifications share the variables:                                 *)
(*   Spec        one request from routing to its last write: dispatch,     *)
(*               the streaming pump, the health call, statistics, logs;    *)
(*   SpecHealth  concurrent requests on the provider health state:         *)
(*               record_failure under its locks and record_success;        *)
(*   SpecRoute   select_provider over arbitrary provider tables;           *)
(*   SpecPrepare one request from the CLI detection to the dispatch: the   *)
(*               upstream headers, the model mapping, the sub-protocol;    *)
(*   SpecUsage   the usage parsing of a streamed response, chunk by chunk; *)
(*   SpecStats   record_request under concurrent requests;                 *)
(*   SpecAdmin   reset_failures and unblacklist beside a request.          *)
(***************************************************************************)
EXTENDS Integers, Sequences, FiniteSets, TLC

\* ------------------------------------------------------------- bounds
NP == 2
NT == 2
MaxThreshold == 2
MaxMinutes == 1
StartTime == 1
HalfMinute == 30
MaxNow == 61
MaxChunks == 2
MaxTokens == 1

\* ---------------------------------------------------- program constants
SecondsPerMinute == 60
Null == -1

Providers == 1..NP
\* An id no row of the providers table has, and the ids record_failure can
\* be called with (the keys _provider_locks can get).
UnknownId == NP + 1
LockKeys == Providers \cup {UnknownId}
Tasks == 1..NT
NoProvider == 0
NoTask == 0
NoLock == 0
LockIds == 1..(NP + NT)
CliTypes == {"claude_code", "codex"}
TickSteps == {HalfMinute, SecondsPerMinute}

VARIABLES
    now,                    \* int(time.time())
    \* providers table (config database)
    enabled, cli_type, sort_order, failure_threshold, blacklist_minutes,
    consecutive_failures, blacklisted_until,
    debug_log,              \* gateway_settings.debug_log
    \* lock table of provider_service
    provider_locks,         \* _provider_locks: provider id -> lock object
    locks_lock,             \* _locks_lock: the task holding it, or NoTask
    lock_owner,             \* each lock object's holder, or NoTask
    \* log database
    usage_daily, system_log, request_log,
    log_db_faulty,          \* whether writes to the log database can fail
    \* the requests
    pc, req,
    \* history of record_failure per provider (not program state)
    hist,
    \* SpecRoute: the last select_provider call
    route,
    \* SpecPrepare: forward_request from the CLI detection to the dispatch
    prep,
    \* SpecUsage: the usage parsing of one streamed response
    sse,
    \* SpecStats: the write transaction of each record_request call in flight,
    \* and the connection that holds the log database's write lock
    txn, db_writer,
    \* SpecAdmin: the admin call in flight
    admin

vars == <<now, enabled, cli_type, sort_order, failure_threshold, blacklist_minutes,
          consecutive_failures, blacklisted_until, debug_log,
          provider_locks, locks_lock, lock_owner,
          usage_daily, system_log, request_log, log_db_faulty, pc, req, hist, route,
          prep, sse, txn, db_writer, admin>>

\* the variables of the request preparation, the usage parser, the statistics
\* writer and the admin calls
otherVars == <<prep, sse, txn, db_writer, admin>>

configVars == <<enabled, cli_type, sort_order, failure_threshold, blacklist_minutes>>
healthVars == <<consecutive_failures, blacklisted_until>>
lockVars == <<provider_locks, locks_lock, lock_owner>>
logVars == <<usage_daily, system_log, request_log, log_db_faulty>>

\* The results a write to the log database can have: TRUE when it is
\* committed, FALSE when it raises.
WriteResults == IF log_db_faulty THEN BOOLEAN ELSE {TRUE}

\* ------------------------------------------------------------ helpers
Min(a, b) == IF a <= b THEN a ELSE b

\* usage = {"input": 0, "output": 0}, and a usage found in a response
NoUsage == [input |-> 0, output |-> 0]
Usages == {NoUsage, [input |-> MaxTokens, output |-> MaxTokens + 1]}
UpstreamStatuses == {200, 400}

\* The chunks an upstream sends, and the usage _parse_sse_usage reads in one.
Chunks == {"delta", "usage"}
ParseUsage(chunk) ==
    IF chunk = "usage" THEN [input |-> MaxTokens, output |-> MaxTokens + 1] ELSE NoUsage

\* A request before it is routed.
FreshRequest ==
    [cli_type |-> "claude_code", provider |-> NoProvider, stream |-> FALSE,
     cached |-> Null,        \* Provider.consecutive_failures held by the request's
                             \* session (identity map), Null when not loaded
     site |-> "none",        \* the call site the request is in
     now |-> 0, failures |-> 0, until |-> Null,   \* locals of record_failure
     lock |-> NoLock,
     started |-> FALSE,      \* the body of stream_generator has begun
     success |-> FALSE, first_byte_received |-> FALSE, chunks |-> 0,
     error_frame |-> "none", usage |-> NoUsage,   \* locals of stream_generator
     received |-> << >>,     \* the chunks aiter_bytes has yielded
     forwarded |-> << >>,    \* what the generator has yielded to the client
     waits |-> << >>,        \* the timeout_val of each wait for a chunk
     log_tried |-> << >>,    \* the rows create_request_log was called with
     upstream |-> "none",    \* what the upstream did
     upstream_status |-> 0,  \* the upstream's status code, 0 while none
     pump_end |-> "none",    \* how the chunk pump ended
     closed |-> FALSE,       \* response.aclose() was awaited
     status |-> 0,           \* status sent to the client, 0 while none
     n_success |-> 0, n_failure |-> 0,            \* health calls returned
     stats |-> << >>]        \* record_request calls made: <<success, tokens>>

\* No select_provider call yet.
NoRoute ==
    [cli_type |-> "none", now |-> 0, order |-> << >>, result |-> NoProvider,
     skipped |-> << >>, events |-> << >>, logged |-> FALSE]

\* No request in preparation, no response being parsed, no write transaction,
\* no admin call.
NoPrep == [pc |-> "idle"]
NoStream == [pc |-> "idle"]
NoTxn == [pc |-> "idle"]
NoAdmin == [pc |-> "idle"]

FreshHist ==
    [calls |-> 0, applied |-> 0, skipped |-> 0, trips |-> 0,
     run |-> 0, trip_now |-> 0, first_until |-> Null, only_failures |-> TRUE,
     streak |-> 0]           \* failures counted since the last write of
                             \* consecutive_failures = 0 (success, reset, trip)

\* ------------------------------------------------------------ routing
IsBlacklistedAtExpiry(p, t) ==
    IF blacklisted_until[p] = Null THEN FALSE ELSE blacklisted_until[p] >= t

\* RoutingService._is_blacklisted
IsBlacklisted(p, t) ==
    IF blacklisted_until[p] = Null THEN FALSE ELSE blacklisted_until[p] > t

\* The WHERE clause of select_provider's query.
Candidates(c) == {p \in Providers : enabled[p] /\ cli_type[p] = c}

\* The rows in an order the query may return them: ORDER BY sort_order alone,
\* so rows of equal sort_order come in an order the database chooses.
QueryOrders(c) ==
    LET S == Candidates(c)
        n == Cardinality(S)
    IN {o \in [1..n -> S] :
            /\ \A i, j \in 1..n : i # j => o[i] # o[j]
            /\ \A i, j \in 1..n : i < j => sort_order[o[i]] <= sort_order[o[j]]}

\* The loop of select_provider over the rows: the first one not blacklisted.
FirstFree(o, t) ==
    LET free == {i \in DOMAIN o : ~IsBlacklisted(o[i], t)}
    IN IF free = {} THEN 0 ELSE CHOOSE i \in free : \A j \in free : i <= j

SelectedOf(o, t) == IF FirstFree(o, t) = 0 THEN NoProvider ELSE o[FirstFree(o, t)]

SkippedOfAll(o, t) == o

\* skipped_providers at the return of select_provider.
SkippedOf(o, t) ==
    IF FirstFree(o, t) = 0 THEN o ELSE SubSeq(o, 1, FirstFree(o, t) - 1)

\* The events select_provider emits: a provider_switch event when it returns
\* a provider after it skipped others.
SwitchEvents(o, t) ==
    IF SelectedOf(o, t) # NoProvider /\ SkippedOf(o, t) # << >>
    THEN <<[event_type |-> "provider_switch", skipped |-> SkippedOf(o, t),
            selected |-> SelectedOf(o, t)]>>
    ELSE << >>

\* --------------------------------------------------------------- Init
InitLocks ==
    /\ provider_locks = [p \in LockKeys |-> NoLock]
    /\ locks_lock = NoTask
    /\ lock_owner = [l \in LockIds |-> NoTask]

InitLogs ==
    /\ usage_daily = {}
    /\ system_log = [t \in Tasks |-> << >>]
    /\ request_log = [t \in Tasks |-> << >>]

InitRequests ==
    /\ pc = [t \in Tasks |-> "idle"]
    /\ req = [t \in Tasks |-> FreshRequest]
    /\ hist = [p \in Providers |-> [FreshHist EXCEPT !.streak = consecutive_failures[p]]]
    /\ route = NoRoute
    /\ prep = NoPrep
    /\ sse = NoStream
    /\ txn = [t \in Tasks |-> NoTxn]
    /\ db_writer = NoTask
    /\ admin = NoAdmin

\* The request path starts from providers of one CLI in the states the
\* health recorder leaves them in: a streak below the threshold and no
\* blacklist, or a blacklist set at StartTime by a trip.
Init ==
    /\ now = StartTime
    /\ enabled = [p \in Providers |-> TRUE]
    /\ cli_type = [p \in Providers |-> "claude_code"]
    /\ sort_order = [p \in Providers |-> p]
    /\ \E n \in 1..MaxThreshold : failure_threshold = [p \in Providers |-> n]
    /\ \E m \in 0..MaxMinutes : blacklist_minutes = [p \in Providers |-> m]
    /\ consecutive_failures \in [Providers -> 0..(MaxThreshold - 1)]
    /\ blacklisted_until \in [Providers -> {Null, StartTime, StartTime + SecondsPerMinute}]
    /\ \A p \in Providers :
        /\ consecutive_failures[p] < failure_threshold[p]
        /\ blacklisted_until[p] # Null =>
            /\ consecutive_failures[p] = 0
            /\ blacklisted_until[p] = StartTime + blacklist_minutes[p] * SecondsPerMinute
    /\ debug_log \in BOOLEAN
    /\ log_db_faulty \in BOOLEAN
    /\ InitLocks
    /\ InitLogs
    /\ InitRequests

\* The health recorder starts from providers as create_provider leaves them:
\* consecutive_failures 0, blacklisted_until NULL, sort_order max+1; each CLI
\* has its providers.
InitHealth ==
    /\ now = StartTime
    /\ enabled = [p \in Providers |-> TRUE]
    /\ cli_type = [p \in Providers |-> IF p % 2 = 1 THEN "claude_code" ELSE "codex"]
    /\ sort_order = [p \in Providers |-> p]
    /\ \E n \in 1..MaxThreshold : failure_threshold = [p \in Providers |-> n]
    /\ \E m \in 0..MaxMinutes : blacklist_minutes = [p \in Providers |-> m]
    /\ consecutive_failures = [p \in Providers |-> 0]
    /\ blacklisted_until = [p \in Providers |-> Null]
    /\ debug_log = FALSE
    /\ log_db_faulty = FALSE
    /\ InitLocks
    /\ InitLogs
    /\ InitRequests

\* time passes
Tick ==
    /\ \E d \in TickSteps : now + d <= MaxNow /\ now' = now + d
    /\ UNCHANGED <<configVars, healthVars, debug_log, lockVars, logVars, pc, req, hist, route, otherVars>>

\* -------------------------------------------------------- system logs
LogEventsDropped(t, events, ok) == system_log' = system_log

\* _create_system_log followed by log_db.commit(), inside try/except: the
\* rows are written, or the write fails and the exception is swallowed.
LogEvents(t, events, ok) ==
    system_log' = [system_log EXCEPT ![t] = IF ok THEN @ \o events ELSE @]

\* ------------------------------------------------- _get_provider_lock
NeedsNewLockAlways(p) == TRUE

\* if provider_id not in _provider_locks
NeedsNewLock(p) == provider_locks[p] = NoLock

\* asyncio.Lock(): an object distinct from every lock still referenced
NewLock ==
    LET used == {provider_locks[p] : p \in LockKeys} \cup {req[t].lock : t \in Tasks}
    IN CHOOSE l \in LockIds \ used : \A m \in LockIds \ used : l <= m

\* async with _locks_lock: (acquire)
RfGuard(t) ==
    /\ pc[t] = "rf_guard"
    /\ locks_lock = NoTask
    /\ locks_lock' = t
    /\ pc' = [pc EXCEPT ![t] = "rf_map"]
    /\ UNCHANGED <<now, configVars, healthVars, debug_log, provider_locks, lock_owner,
                   logVars, req, hist, route, otherVars>>

\* the body of _get_provider_lock and the release of _locks_lock
RfMap(t) ==
    LET p == req[t].provider
        l == IF NeedsNewLock(p) THEN NewLock ELSE provider_locks[p]
    IN /\ pc[t] = "rf_map"
       /\ provider_locks' = [provider_locks EXCEPT ![p] = l]
       /\ req' = [req EXCEPT ![t].lock = l]
       /\ locks_lock' = NoTask
       /\ pc' = [pc EXCEPT ![t] = "rf_lock"]
       /\ UNCHANGED <<now, configVars, healthVars, debug_log, lock_owner, logVars, hist, route, otherVars>>

\* ------------------------------------------------------ record_failure
BlacklistUntilPlain(t, minutes) == t + minutes

\* blacklist_until = now + blacklist_minutes * 60
BlacklistUntil(t, minutes) == t + minutes * SecondsPerMinute

ReachedThresholdLate(new_failures, threshold) == new_failures > threshold

\* if new_failures >= threshold
ReachedThreshold(new_failures, threshold) == new_failures >= threshold

RowBlacklistedNever(until, t) == FALSE

\* if blacklisted_until and blacklisted_until > now
RowBlacklisted(until, t) == until # Null /\ until # 0 /\ until > t

LockIsFreeAlways(l) == TRUE

\* asyncio.Lock.acquire returns only while no task holds the lock
LockIsFree(l) == lock_owner[l] = NoTask

LockKept(l) == lock_owner

\* The exit of "async with lock": the lock is released, on a return from
\* inside the block as at its end.
LockReleased(l) == [lock_owner EXCEPT ![l] = NoTask]

AllRowsUpdated(column, id, value) == [p \in DOMAIN column |-> value]

\* UPDATE providers SET column = value WHERE id = :id
RowUpdated(column, id, value) == [column EXCEPT ![id] = value]

\* async with lock: (acquire), then now = int(time.time())
RfLock(t) ==
    /\ pc[t] = "rf_lock"
    /\ LockIsFree(req[t].lock)
    /\ lock_owner' = [lock_owner EXCEPT ![req[t].lock] = t]
    /\ req' = [req EXCEPT ![t].now = now]
    /\ pc' = [pc EXCEPT ![t] = "rf_select"]
    /\ UNCHANGED <<now, configVars, healthVars, debug_log, provider_locks, locks_lock,
                   logVars, hist, route, otherVars>>

\* The SELECT of the row, "if not row: return" and the test for an active
\* blacklist; a call for an id without a row and a call that reads an active
\* blacklist return (and leave the lock).
RfSelect(t) ==
    LET p == req[t].provider
    IN /\ pc[t] = "rf_select"
       /\ IF p \notin Providers
          THEN /\ lock_owner' = LockReleased(req[t].lock)
               /\ req' = [req EXCEPT ![t].lock = NoLock, ![t].now = 0,
                                     ![t].n_failure = @ + 1]
               /\ pc' = [pc EXCEPT ![t] = "stats"]
               /\ UNCHANGED hist
          ELSE IF RowBlacklisted(blacklisted_until[p], req[t].now)
          THEN /\ lock_owner' = LockReleased(req[t].lock)
               /\ req' = [req EXCEPT ![t].lock = NoLock, ![t].now = 0,
                                     ![t].n_failure = @ + 1]
               /\ hist' = [hist EXCEPT ![p].calls = @ + 1, ![p].skipped = @ + 1,
                                       ![p].run = IF @ < 0 THEN @ ELSE Min(@ + 1, MaxThreshold + 1)]
               /\ pc' = [pc EXCEPT ![t] = "stats"]
          ELSE /\ req' = [req EXCEPT ![t].failures = consecutive_failures[p],
                                     ![t].until = blacklisted_until[p]]
               /\ pc' = [pc EXCEPT ![t] = "rf_update"]
               /\ UNCHANGED <<lock_owner, hist>>
       /\ UNCHANGED <<now, configVars, healthVars, debug_log, provider_locks, locks_lock,
                      logVars, route, otherVars>>

\* The UPDATE and db.commit().
RfUpdate(t) ==
    LET p == req[t].provider
        new_failures == req[t].failures + 1
        trip == ReachedThreshold(new_failures, failure_threshold[p])
        until == BlacklistUntil(req[t].now, blacklist_minutes[p])
    IN /\ pc[t] = "rf_update"
       /\ IF trip
          THEN /\ consecutive_failures' = RowUpdated(consecutive_failures, p, 0)
               /\ blacklisted_until' = RowUpdated(blacklisted_until, p, until)
          ELSE /\ consecutive_failures' = RowUpdated(consecutive_failures, p, new_failures)
               /\ UNCHANGED blacklisted_until
       /\ req' = [req EXCEPT ![t].failures = new_failures]
       /\ hist' = [hist EXCEPT ![p].calls = @ + 1, ![p].applied = @ + 1,
                               ![p].trips = IF trip THEN @ + 1 ELSE @,
                               ![p].trip_now = IF trip THEN req[t].now ELSE @,
                               ![p].first_until = IF trip /\ hist[p].trips = 0 THEN until ELSE @,
                               ![p].run = IF @ < 0 THEN @ ELSE Min(@ + 1, MaxThreshold + 1),
                               ![p].streak = IF trip THEN 0 ELSE Min(@ + 1, MaxThreshold + 1)]
       /\ pc' = [pc EXCEPT ![t] = "rf_log"]
       /\ UNCHANGED <<now, configVars, debug_log, lockVars, logVars, route, otherVars>>

\* The two events (best effort), the release of the lock and the return.
RfLog(t) ==
    LET p == req[t].provider
        events == IF ReachedThreshold(req[t].failures, failure_threshold[p])
                  THEN <<"provider_failure", "provider_blacklist">>
                  ELSE <<"provider_failure">>
    IN /\ pc[t] = "rf_log"
       /\ \E ok \in WriteResults : LogEvents(t, events, ok)
       /\ lock_owner' = LockReleased(req[t].lock)
       /\ req' = [req EXCEPT ![t].lock = NoLock, ![t].now = 0, ![t].failures = 0,
                             ![t].until = Null, ![t].n_failure = @ + 1]
       /\ pc' = [pc EXCEPT ![t] = "stats"]
       /\ UNCHANGED <<now, configVars, healthVars, debug_log, provider_locks, locks_lock,
                      usage_daily, request_log, log_db_faulty, hist, route, otherVars>>

\* ------------------------------------------------------ record_success
\* What a record_success leaves in the history of record_failure runs: a run
\* restarts when the provider is back in the zero state.
RunAfterSuccess(failures, until) == IF failures = 0 /\ until = Null THEN 0 ELSE -1

\* select(Provider).where(Provider.id == provider_id) through the request's
\* session: a Provider the session already holds (loaded by select_provider,
\* expire_on_commit=False) keeps its loaded attribute values; a closed session
\* holds none and loads the row.
LoadedFailures(t) ==
    IF req[t].cached # Null THEN req[t].cached ELSE consecutive_failures[req[t].provider]

\* if provider and provider.consecutive_failures > 0
RsRead(t) ==
    LET p == req[t].provider
    IN /\ pc[t] = "rs_read"
       /\ IF LoadedFailures(t) > 0
          THEN /\ req' = [req EXCEPT ![t].failures = LoadedFailures(t)]
               /\ pc' = [pc EXCEPT ![t] = "rs_commit"]
          ELSE /\ req' = [req EXCEPT ![t].n_success = @ + 1]
               /\ pc' = [pc EXCEPT ![t] = "stats"]
       /\ hist' = [hist EXCEPT ![p].only_failures = FALSE,
                               ![p].run = RunAfterSuccess(consecutive_failures[p], blacklisted_until[p])]
       /\ UNCHANGED <<now, configVars, healthVars, debug_log, lockVars, logVars, route, otherVars>>

\* The attributes of the Provider that record_success assigns before
\* db.commit(): the commit's UPDATE sets these columns of the row and no other.
SuccessAssignsBlacklist == {"consecutive_failures", "blacklisted_until"}

SuccessAssigns == {"consecutive_failures"}

\* provider.consecutive_failures = 0; db.commit(); the INFO event (best effort)
RsCommit(t) ==
    LET p == req[t].provider
    IN /\ pc[t] = "rs_commit"
       /\ consecutive_failures' = IF "consecutive_failures" \in SuccessAssigns
                                  THEN RowUpdated(consecutive_failures, p, 0)
                                  ELSE consecutive_failures
       /\ blacklisted_until' = IF "blacklisted_until" \in SuccessAssigns
                               THEN RowUpdated(blacklisted_until, p, Null)
                               ELSE blacklisted_until
       /\ \E ok \in WriteResults : LogEvents(t, <<"failure_reset">>, ok)
       /\ req' = [req EXCEPT ![t].cached = 0, ![t].failures = 0, ![t].n_success = @ + 1]
       /\ hist' = [hist EXCEPT ![p].run = RunAfterSuccess(0, blacklisted_until[p]),
                               ![p].streak = 0]
       /\ pc' = [pc EXCEPT ![t] = "stats"]
       /\ UNCHANGED <<now, configVars, debug_log, lockVars, usage_daily, request_log, log_db_faulty, route, otherVars>>

\* ---------------------------------------------------- forward_request
\* create_request_log inside try/except: the row is written or the failure
\* is swallowed.
RequestLogged(t, row, ok) ==
    request_log' = [request_log EXCEPT ![t] = IF ok THEN Append(@, row) ELSE @]

LogRowSucceeded(t, success, status_code) ==
    [provider |-> req[t].provider, success |-> TRUE, status_code |-> status_code,
     input_tokens |-> 0, output_tokens |-> 0]

LogRow(t, success, status_code) ==
    [provider |-> req[t].provider, success |-> success, status_code |-> status_code,
     input_tokens |-> 0, output_tokens |-> 0]

\* select_provider, and on None the rejected-request log and the 503
Start(t) ==
    /\ pc[t] = "idle"
    /\ \E c \in CliTypes : \E s \in BOOLEAN, o \in QueryOrders(c), ok \in WriteResults :
        LET p == SelectedOf(o, now)
        IN IF p = NoProvider
           THEN /\ RequestLogged(t, LogRow(t, FALSE, 503), ok)
                /\ req' = [req EXCEPT ![t].cli_type = c, ![t].stream = s, ![t].status = 503,
                                      ![t].log_tried = Append(@, LogRow(t, FALSE, 503))]
                /\ pc' = [pc EXCEPT ![t] = "done"]
                /\ UNCHANGED system_log
           ELSE /\ IF SkippedOf(o, now) # << >>
                   THEN LogEvents(t, <<"provider_switch">>, ok)
                   ELSE UNCHANGED system_log
                /\ req' = [req EXCEPT ![t].cli_type = c, ![t].stream = s, ![t].provider = p,
                                      ![t].cached = consecutive_failures[p]]
                /\ pc' = [pc EXCEPT ![t] = "dispatch"]
                /\ UNCHANGED request_log
    /\ UNCHANGED <<now, configVars, healthVars, debug_log, lockVars, usage_daily, log_db_faulty, hist, route, otherVars>>

\* response.status_code < 400
IsSuccessStatus(status_code) == status_code < 400

\* _forward_non_streaming up to its health call: client.request answers with a
\* status, times out (httpx.TimeoutException) or raises another exception.
DispatchNonStreaming(t) ==
    /\ pc[t] = "dispatch"
    /\ ~req[t].stream
    /\ \/ \E sc \in UpstreamStatuses, u \in Usages :
            /\ req' = [req EXCEPT ![t].upstream = "response", ![t].upstream_status = sc,
                                  ![t].usage = u,
                                  ![t].site = IF IsSuccessStatus(sc) THEN "ns_ok" ELSE "ns_err"]
            /\ pc' = [pc EXCEPT ![t] = IF IsSuccessStatus(sc) THEN "rs_read" ELSE "rf_guard"]
            /\ UNCHANGED request_log
       \/ /\ req' = [req EXCEPT ![t].upstream = "timeout", ![t].site = "ns_timeout",
                                ![t].log_tried = IF debug_log
                                                 THEN Append(@, LogRow(t, FALSE, 504))
                                                 ELSE @]
          /\ pc' = [pc EXCEPT ![t] = "rf_guard"]
          /\ IF debug_log
             THEN \E ok \in WriteResults : RequestLogged(t, LogRow(t, FALSE, 504), ok)
             ELSE UNCHANGED request_log
       \/ /\ req' = [req EXCEPT ![t].upstream = "exception", ![t].site = "exc"]
          /\ pc' = [pc EXCEPT ![t] = "rf_guard"]
          /\ UNCHANGED request_log
    /\ UNCHANGED <<now, configVars, healthVars, debug_log, lockVars, usage_daily, system_log,
                   log_db_faulty, hist, route, otherVars>>

\* _forward_streaming up to the return of the StreamingResponse: client.send
\* answers with a status or raises.  With a status < 400 the response is
\* returned, proxy_request leaves its sessions (they are closed) and the
\* status is committed to the client; the generator runs afterwards.
DispatchStreaming(t) ==
    /\ pc[t] = "dispatch"
    /\ req[t].stream
    /\ \/ \E sc \in UpstreamStatuses :
            IF IsSuccessStatus(sc)
            THEN /\ req' = [req EXCEPT ![t].upstream = "response", ![t].upstream_status = sc,
                                       ![t].site = "st_fin", ![t].status = sc,
                                       ![t].cached = Null]
                 /\ pc' = [pc EXCEPT ![t] = "pump"]
            ELSE /\ req' = [req EXCEPT ![t].upstream = "response", ![t].upstream_status = sc,
                                       ![t].site = "st_err", ![t].closed = TRUE]
                 /\ pc' = [pc EXCEPT ![t] = "rf_guard"]
       \/ /\ req' = [req EXCEPT ![t].upstream = "exception", ![t].site = "exc"]
          /\ pc' = [pc EXCEPT ![t] = "rf_guard"]
    /\ UNCHANGED <<now, configVars, healthVars, debug_log, lockVars, logVars, hist, route, otherVars>>

\* ---------------------------------------------------- stream_generator
PumpEnds == {"eof", "chunk_timeout", "transport_timeout", "error", "cancel"}

TimeoutValIdle(first_byte_received) == "stream_idle_timeout"

\* timeout_val of the wait for the next chunk
TimeoutVal(first_byte_received) ==
    IF ~first_byte_received THEN "stream_first_byte_timeout" ELSE "stream_idle_timeout"

\* The first __anext__ of the generator: its body starts.
PumpStart(t) ==
    /\ pc[t] = "pump"
    /\ ~req[t].started
    /\ req' = [req EXCEPT ![t].started = TRUE]
    /\ UNCHANGED <<now, configVars, healthVars, debug_log, lockVars, logVars, pc, hist, route, otherVars>>

\* The client is gone before the generator is advanced for the first time:
\* the generator is dropped unstarted, and the body of an async generator
\* that never started does not run, its finally block included.
PumpAbandoned(t) ==
    /\ pc[t] = "pump"
    /\ ~req[t].started
    /\ pc' = [pc EXCEPT ![t] = "done"]
    /\ UNCHANGED <<now, configVars, healthVars, debug_log, lockVars, logVars, req, hist, route, otherVars>>

\* One turn of the while loop that receives a chunk: it is counted, kept,
\* parsed for usage (last write wins) and yielded to the client.
PumpChunk(t) ==
    /\ pc[t] = "pump"
    /\ req[t].started
    /\ req[t].chunks < MaxChunks
    /\ \E c \in Chunks :
        req' = [req EXCEPT ![t].waits = Append(@, TimeoutVal(req[t].first_byte_received)),
                           ![t].first_byte_received = TRUE, ![t].chunks = @ + 1,
                           ![t].received = Append(@, c),
                           ![t].usage = IF ParseUsage(c) = NoUsage THEN @ ELSE ParseUsage(c),
                           ![t].forwarded = Append(@, c)]
    /\ UNCHANGED <<now, configVars, healthVars, debug_log, lockVars, logVars, pc, hist, route, otherVars>>

\* The frame the generator yields for the way the pump ended.
ErrorFrame(end, first_byte_received) ==
    CASE end = "chunk_timeout" ->
            IF first_byte_received THEN "Idle timeout" ELSE "First byte timeout"
      [] end = "transport_timeout" -> "connection timeout"
      [] end = "error" -> "error"
      [] OTHER -> "none"

FramesOfNone(end, first_byte_received) == << >>

\* What the handler of the pump's end yields to the client.
FramesOf(end, first_byte_received) ==
    IF ErrorFrame(end, first_byte_received) = "none"
    THEN << >>
    ELSE <<ErrorFrame(end, first_byte_received)>>

SuccessOfAlways(end) == TRUE

\* success = True only at StopAsyncIteration
SuccessOf(end) == end = "eof"

\* The end of the while loop (StopAsyncIteration, asyncio.TimeoutError, an
\* exception of the transport, or the cancellation of the generator at its
\* await or yield) and the start of the finally block: response.aclose() and
\* the second parse of the collected chunks when no usage was found.
PumpEnd(t) ==
    /\ pc[t] = "pump"
    /\ req[t].started
    /\ \E end \in PumpEnds, u \in Usages, at_yield \in BOOLEAN :
        /\ at_yield => end = "cancel" /\ req[t].chunks > 0
        /\ req' = [req EXCEPT ![t].pump_end = end,
                              ![t].waits = IF at_yield THEN @
                                           ELSE Append(@, TimeoutVal(req[t].first_byte_received)),
                              ![t].forwarded = @ \o FramesOf(end, req[t].first_byte_received),
                              ![t].success = SuccessOf(end),
                              ![t].error_frame = ErrorFrame(end, req[t].first_byte_received),
                              ![t].closed = TRUE,
                              ![t].usage = IF req[t].chunks > 0 /\ @ = NoUsage THEN u ELSE @]
        /\ pc' = [pc EXCEPT ![t] = IF SuccessOf(end) THEN "rs_read" ELSE "rf_guard"]
    /\ UNCHANGED <<now, configVars, healthVars, debug_log, lockVars, logVars, hist, route, otherVars>>

\* ------------------------------------------------------ record_request
\* INSERT ... ON CONFLICT (usage_date, provider_name, cli_type) DO UPDATE
Upsert(rows, p, c, success, tokens) ==
    LET old == {r \in rows : r.provider = p /\ r.cli_type = c}
        s == IF success THEN 1 ELSE 0
    IN IF old = {}
       THEN rows \cup {[provider |-> p, cli_type |-> c, request_count |-> 1,
                        success_count |-> s, failure_count |-> 1 - s,
                        prompt_tokens |-> tokens.input,
                        completion_tokens |-> tokens.output]}
       ELSE (rows \ old) \cup
            {[r EXCEPT !.request_count = @ + 1, !.success_count = @ + s,
                       !.failure_count = @ + (1 - s),
                       !.prompt_tokens = @ + tokens.input,
                       !.completion_tokens = @ + tokens.output] : r \in old}

\* The success argument of the record_request call at the request's site.
StatSuccess(t) ==
    \/ req[t].site = "ns_ok"
    \/ req[t].site = "st_fin" /\ req[t].success

\* The token arguments: the parsed usage on success, 0, 0 otherwise.
StatTokens(t) == IF StatSuccess(t) THEN req[t].usage ELSE NoUsage

\* The status the client gets when the site's code runs to its end.
FinalStatus(t) ==
    CASE req[t].site = "ns_timeout" -> 504
      [] req[t].site = "exc" -> 502
      [] req[t].site = "st_fin" -> req[t].status
      [] OTHER -> req[t].upstream_status

\* The request log row the site writes after record_request.
SiteLogRow(t) ==
    [provider |-> req[t].provider,
     success |-> IF req[t].site = "ns_err" THEN FALSE ELSE StatSuccess(t),
     status_code |-> IF req[t].site = "exc" THEN 502 ELSE req[t].upstream_status,
     input_tokens |-> IF req[t].site \in {"exc", "st_err"} THEN 0 ELSE req[t].usage.input,
     output_tokens |-> IF req[t].site \in {"exc", "st_err"} THEN 0 ELSE req[t].usage.output]

\* Where an exception of record_request goes: out of _forward_streaming /
\* _forward_non_streaming into forward_request's "except Exception", or, from
\* that handler and from the generator, out of the request.
RaisedIsHandled(t) == req[t].site \in {"ns_ok", "ns_err", "ns_timeout", "st_err"}

\* stats_service.record_request after the health call, then the request log
\* (debug_log, best effort) and the response.  A failing write raises.
Stats(t) ==
    /\ pc[t] = "stats"
    /\ \/ /\ usage_daily' = Upsert(usage_daily, req[t].provider, req[t].cli_type,
                                   StatSuccess(t), StatTokens(t))
          /\ req' = [req EXCEPT ![t].stats = Append(@, [success |-> StatSuccess(t),
                                                        tokens |-> StatTokens(t)]),
                                ![t].status = FinalStatus(t),
                                ![t].log_tried = IF debug_log /\ req[t].site # "ns_timeout"
                                                 THEN Append(@, SiteLogRow(t))
                                                 ELSE @]
          /\ pc' = [pc EXCEPT ![t] = "done"]
          /\ IF debug_log /\ req[t].site # "ns_timeout"
             THEN \E ok \in WriteResults : RequestLogged(t, SiteLogRow(t), ok)
             ELSE UNCHANGED request_log
       \/ /\ FALSE \in WriteResults
          /\ RaisedIsHandled(t)
          /\ req' = [req EXCEPT ![t].site = "exc"]
          /\ pc' = [pc EXCEPT ![t] = "rf_guard"]
          /\ UNCHANGED <<usage_daily, request_log>>
       \/ /\ FALSE \in WriteResults
          /\ ~RaisedIsHandled(t)
          /\ req' = [req EXCEPT ![t].status = IF req[t].site = "exc" THEN 500 ELSE @]
          /\ pc' = [pc EXCEPT ![t] = "done"]
          /\ UNCHANGED <<usage_daily, request_log>>
    /\ UNCHANGED <<now, configVars, healthVars, debug_log, lockVars, system_log, log_db_faulty, hist, route, otherVars>>

\* ---------------------------------------------------------------- Spec
\* The request path of one request, in full.  Client is the request; what
\* the claims checked here say of a request does not depend on the others.
Client == 1

Step(t) ==
    \/ Start(t)
    \/ DispatchNonStreaming(t)
    \/ DispatchStreaming(t)
    \/ PumpStart(t)
    \/ PumpAbandoned(t)
    \/ PumpChunk(t)
    \/ PumpEnd(t)
    \/ RsRead(t)
    \/ RsCommit(t)
    \/ RfGuard(t)
    \/ RfMap(t)
    \/ RfLock(t)
    \/ RfSelect(t)
    \/ RfUpdate(t)
    \/ RfLog(t)
    \/ Stats(t)

Next ==
    \/ Step(Client)
    \/ Tick

Spec == Init /\ [][Next]_vars

\* ---------------------------------------------------------- SpecHealth
\* The health recorder under concurrent requests.  A request is routed
\* (Start), its forward ends in success or failure (Forwarded), it makes the
\* health call of its site, and the code after the health call either runs
\* to the end or raises into forward_request's handler, which calls
\* record_failure once more (Returned).

\* forward_request from the dispatch to the health call, by its result only.
Forwarded(t) ==
    /\ pc[t] = "dispatch"
    /\ \/ /\ req' = [req EXCEPT ![t].site = IF req[t].stream THEN "st_fin" ELSE "ns_ok",
                                ![t].success = TRUE,
                                ![t].cached = IF req[t].stream THEN Null ELSE @]
          /\ pc' = [pc EXCEPT ![t] = "rs_read"]
       \/ \E site \in {"ns_err", "exc", "st_fin"} :
            /\ site = "st_fin" => req[t].stream
            /\ req' = [req EXCEPT ![t].site = site,
                                  ![t].cached = IF site = "st_fin" THEN Null ELSE @]
            /\ pc' = [pc EXCEPT ![t] = "rf_guard"]
    /\ UNCHANGED <<now, configVars, healthVars, debug_log, lockVars, logVars, hist, route, otherVars>>

\* The code after the health call, by its result only.
Returned(t) ==
    /\ pc[t] = "stats"
    /\ \/ /\ req' = [req EXCEPT ![t] = FreshRequest]
          /\ pc' = [pc EXCEPT ![t] = "done"]
       \/ /\ RaisedIsHandled(t)
          /\ req' = [req EXCEPT ![t].site = "exc"]
          /\ pc' = [pc EXCEPT ![t] = "rf_guard"]
    /\ UNCHANGED <<now, configVars, healthVars, debug_log, lockVars, logVars, hist, route, otherVars>>

HealthStep(t) ==
    \/ Start(t)
    \/ Forwarded(t)
    \/ RsRead(t)
    \/ RsCommit(t)
    \/ RfGuard(t)
    \/ RfMap(t)
    \/ RfLock(t)
    \/ RfSelect(t)
    \/ RfUpdate(t)
    \/ RfLog(t)
    \/ Returned(t)

NextHealth ==
    \/ \E t \in Tasks : HealthStep(t)
    \/ Tick

SpecHealth == InitHealth /\ [][NextHealth]_vars

\* ----------------------------------------------------------- SpecRoute
\* select_provider over provider tables: providers as create_provider makes
\* them (any CLI, enabled or not, sort_order max+1), blacklisted or not, and
\* reordered by reorder_providers.
InitRoute ==
    /\ now = StartTime
    /\ enabled \in [Providers -> BOOLEAN]
    /\ cli_type \in [Providers -> CliTypes]
    /\ sort_order = [p \in Providers |-> p]
    /\ failure_threshold = [p \in Providers |-> MaxThreshold]
    /\ blacklist_minutes = [p \in Providers |-> MaxMinutes]
    /\ consecutive_failures = [p \in Providers |-> 0]
    /\ blacklisted_until \in [Providers -> {Null, StartTime, StartTime + HalfMinute}]
    /\ debug_log = FALSE
    /\ log_db_faulty = TRUE
    /\ InitLocks
    /\ InitLogs
    /\ InitRequests

\* The sequences of distinct provider ids.
IdLists ==
    UNION {{ids \in [1..n -> Providers] : \A i, j \in 1..n : i # j => ids[i] # ids[j]}
           : n \in 1..NP}

\* reorder_providers: sort_order = idx for each id of the list
ReorderProviders ==
    /\ \E ids \in IdLists :
        sort_order' = [p \in Providers |->
                         IF \E i \in DOMAIN ids : ids[i] = p
                         THEN (CHOOSE i \in DOMAIN ids : ids[i] = p) - 1
                         ELSE sort_order[p]]
    /\ route' = NoRoute
    /\ UNCHANGED <<now, enabled, cli_type, failure_threshold, blacklist_minutes, healthVars,
                   debug_log, lockVars, logVars, pc, req, hist, otherVars>>

\* select_provider(cli_type); route.logged is the provider_switch event of the
\* call, written when providers were skipped and the write succeeds.
SelectProvider ==
    /\ \E c \in CliTypes : \E o \in QueryOrders(c), ok \in WriteResults :
        route' = [cli_type |-> c, now |-> now, order |-> o,
                  result |-> SelectedOf(o, now), skipped |-> SkippedOf(o, now),
                  events |-> SwitchEvents(o, now),
                  logged |-> ok /\ SwitchEvents(o, now) # << >>]
    /\ UNCHANGED <<now, configVars, healthVars, debug_log, lockVars, logVars, pc, req, hist, otherVars>>

TickRoute ==
    /\ \E d \in TickSteps : now + d <= MaxNow /\ now' = now + d
    /\ route' = NoRoute
    /\ UNCHANGED <<configVars, healthVars, debug_log, lockVars, logVars, pc, req, hist, otherVars>>

NextRoute ==
    \/ ReorderProviders
    \/ SelectProvider
    \/ TickRoute

SpecRoute == InitRoute /\ [][NextRoute]_vars

\* ---------------------------------------------------------- SpecPrepare
\* forward_request from the detection of the CLI to the dispatch, for one
\* request: the upstream path, the upstream headers, the upstream body and
\* the choice of the sub-protocol.

\* The user agents of the requests, by the CLI names they contain.
UserAgents == {{}, {"claude"}, {"codex"}, {"gemini"}}

\* _detect_cli_type
DetectCliType(user_agent) ==
    IF "codex" \in user_agent THEN "codex"
    ELSE IF "claude" \in user_agent THEN "claude_code"
    ELSE IF "gemini" \in user_agent THEN "gemini"
    ELSE "claude_code"

FILTERED_HEADERS ==
    {"host", "connection", "keep-alive", "transfer-encoding",
     "te", "trailer", "upgrade", "content-length"}

\* The header names a request may carry (lower case, as the server hands them
\* over), each with a value of the client's.
InboundNames == {"host", "content-length", "authorization", "x-goog-api-key", "accept"}
ClientValue == <<"client">>
InboundHeaders == UNION {[S -> {ClientValue}] : S \in SUBSET InboundNames}

\* provider.api_key of the selected provider
ApiKey == "sk-provider"
Bearer(key) == <<"Bearer", key>>

ForwardableAll(inbound) == inbound

\* {k: v for k, v in request.headers.items() if k.lower() not in FILTERED_HEADERS}
Forwardable(inbound) ==
    [k \in (DOMAIN inbound) \ FILTERED_HEADERS |-> inbound[k]]

NoHeaders == [k \in {} |-> ClientValue]

\* headers[name] = value
WithHeader(h, name, value) ==
    [k \in (DOMAIN h) \cup {name} |-> IF k = name THEN value ELSE h[k]]

\* headers.pop(name, None)
WithoutHeader(h, name) == [k \in (DOMAIN h) \ {name} |-> h[k]]

\* The headers of the upstream request.
UpstreamHeaders(c, inbound, key) ==
    IF c = "gemini"
    THEN WithHeader(WithoutHeader(Forwardable(inbound), "authorization"),
                    "x-goog-api-key", <<key>>)
    ELSE WithHeader(Forwardable(inbound), "authorization", Bearer(key))

\* The request bodies, by what json.loads makes of them: no bytes, bytes that
\* are not JSON, or a JSON value.  A string or a list either contains "model"
\* or does not; an object has a "model" that is absent, a string or another
\* value, and a "stream" that is absent or one of the values below.
MaxRules == 2
ModelNames == {"m1", "m2"}
StreamValues == {"absent", "true", "false", "one", "text"}
ScalarBodies ==
    {[kind |-> k, model |-> "absent", stream |-> "absent"] :
        k \in {"empty", "invalid", "null", "number", "bool", "string", "list"}}
ContainerBodies ==
    {[kind |-> k, model |-> "contained", stream |-> "absent"] : k \in {"string", "list"}}
ObjectBodies ==
    {[kind |-> "object", model |-> m, stream |-> s] :
        m \in ModelNames \cup {"absent", "nonstring"}, s \in StreamValues}
Bodies == ScalarBodies \cup ContainerBodies \cup ObjectBodies

\* The paths of CLI C requests: whether the path has the shape
\* v1beta/models/{model}:{action}, and whether ":streamGenerateContent" is in it.
NoPath == [matches |-> FALSE, model |-> "none", streaming |-> FALSE]
GeminiPaths ==
    {[matches |-> TRUE, model |-> m, streaming |-> s] : m \in ModelNames, s \in BOOLEAN}
        \cup {[matches |-> FALSE, model |-> "none", streaming |-> s] : s \in BOOLEAN}

\* provider.model_maps as the relationship loads them: ProviderModelMap rows
\* with the columns of the table (id, target_model, enabled; model_role is
\* never read).
RuleLists ==
    UNION {[1..n -> [id : 1..MaxRules, target_model : {"m2"}, enabled : BOOLEAN]]
           : n \in 0..MaxRules}
ModelMaps == {r \in RuleLists : \A i \in DOMAIN r : r[i].id = i}

\* What a rewrite returns or raises.
Result(value, original_model, final_model) ==
    [value |-> value, raised |-> "none",
     original_model |-> original_model, final_model |-> final_model]
Raised(value, error) ==
    [value |-> value, raised |-> error, original_model |-> "none", final_model |-> "none"]

\* The loop over provider.model_maps: a row that is not enabled is passed
\* over; at the first enabled row the test reads mm.source_model, an attribute
\* ProviderModelMap does not have, and the AttributeError leaves the rewrite
\* (original_model.lower() raises the same error for a model that is no string).
FirstEnabled(maps) ==
    LET on == {i \in DOMAIN maps : maps[i].enabled}
    IN IF on = {} THEN 0 ELSE CHOOSE i \in on : \A j \in on : i <= j

\* _apply_model_mapping
ApplyModelMapping(maps, body) ==
    IF body.kind = "empty" THEN Result(body, "none", "none")
    ELSE IF body.kind = "invalid" THEN Result(body, "none", "none")
    ELSE IF body.kind \in {"null", "number", "bool"} THEN Raised(body, "TypeError")
    ELSE IF body.model = "absent" THEN Result(body, "none", "none")
    ELSE IF body.kind \in {"string", "list"} THEN Raised(body, "TypeError")
    ELSE IF maps = << >> THEN Result(body, "none", body.model)
    ELSE IF FirstEnabled(maps) = 0 THEN Result(body, "none", body.model)
    ELSE Raised(body, "AttributeError")

\* _apply_gemini_url_model_mapping
ApplyGeminiUrlModelMapping(maps, path) ==
    IF ~path.matches THEN Result(path, "none", "none")
    ELSE IF maps = << >> THEN Result(path, "none", path.model)
    ELSE IF FirstEnabled(maps) = 0 THEN Result(path, "none", path.model)
    ELSE Raised(path, "AttributeError")

\* bool(value) of a "stream" value
Truthy(stream) == stream \in {"true", "one", "text"}

\* _is_streaming_request, as forward_request's "if is_stream" reads it
IsStreamingRequest(body, path, c) ==
    IF c = "gemini" THEN path.streaming
    ELSE IF body.kind # "object" THEN FALSE
    ELSE Truthy(body.stream)

\* A request arrives and select_provider returns a provider.
Receive ==
    /\ prep.pc = "idle"
    /\ \E ua \in UserAgents, inbound \in InboundHeaders, maps \in ModelMaps,
          path \in GeminiPaths :
        /\ DetectCliType(ua) # "gemini" => path = NoPath
        /\ prep' = [pc |-> "url", cli_type |-> DetectCliType(ua), inbound |-> inbound,
                    model_maps |-> maps, client_path |-> path, path |-> path,
                    headers |-> NoHeaders, body |-> [kind |-> "unread"],
                    forward_body |-> [kind |-> "unread"],
                    raised |-> "none", is_stream |-> FALSE, status |-> 0]
    /\ UNCHANGED <<now, configVars, healthVars, debug_log, lockVars, logVars, pc, req, hist,
                   route, sse, txn, db_writer, admin>>

\* The model mapping of the path (CLI C) and the upstream headers.
PrepareHeaders ==
    /\ prep.pc = "url"
    /\ LET r == IF prep.cli_type = "gemini"
                THEN ApplyGeminiUrlModelMapping(prep.model_maps, prep.path)
                ELSE Result(prep.path, "none", "none")
       IN IF r.raised # "none"
          THEN prep' = [prep EXCEPT !.pc = "raised", !.raised = r.raised, !.status = 500]
          ELSE prep' = [prep EXCEPT !.pc = "body", !.path = r.value,
                                    !.headers = UpstreamHeaders(prep.cli_type, prep.inbound, ApiKey)]
    /\ UNCHANGED <<now, configVars, healthVars, debug_log, lockVars, logVars, pc, req, hist,
                   route, sse, txn, db_writer, admin>>

\* body = await request.body() and the model mapping of the body (CLI A, B)
MapBody ==
    /\ prep.pc = "body"
    /\ \E body \in Bodies :
        LET r == IF prep.cli_type # "gemini"
                 THEN ApplyModelMapping(prep.model_maps, body)
                 ELSE Result(body, "none", "none")
        IN IF r.raised # "none"
           THEN prep' = [prep EXCEPT !.pc = "raised", !.body = body, !.raised = r.raised,
                                     !.status = 500]
           ELSE prep' = [prep EXCEPT !.pc = "classify", !.body = body, !.forward_body = r.value]
    /\ UNCHANGED <<now, configVars, healthVars, debug_log, lockVars, logVars, pc, req, hist,
                   route, sse, txn, db_writer, admin>>

\* is_stream and the dispatch to _forward_streaming or _forward_non_streaming
Classify ==
    /\ prep.pc = "classify"
    /\ prep' = [prep EXCEPT !.pc = "dispatched",
                            !.is_stream = IsStreamingRequest(prep.body, prep.path, prep.cli_type)]
    /\ UNCHANGED <<now, configVars, healthVars, debug_log, lockVars, logVars, pc, req, hist,
                   route, sse, txn, db_writer, admin>>

\* One provider table; the preparation reads the selected provider only.
InitPrepare ==
    /\ now = StartTime
    /\ enabled = [p \in Providers |-> TRUE]
    /\ cli_type = [p \in Providers |-> "claude_code"]
    /\ sort_order = [p \in Providers |-> p]
    /\ failure_threshold = [p \in Providers |-> MaxThreshold]
    /\ blacklist_minutes = [p \in Providers |-> MaxMinutes]
    /\ consecutive_failures = [p \in Providers |-> 0]
    /\ blacklisted_until = [p \in Providers |-> Null]
    /\ debug_log = FALSE
    /\ log_db_faulty = FALSE
    /\ InitLocks
    /\ InitLogs
    /\ InitRequests

NextPrepare ==
    \/ Receive
    \/ PrepareHeaders
    \/ MapBody
    \/ Classify

SpecPrepare == InitPrepare /\ [][NextPrepare]_vars

\* ------------------------------------------------------------ SpecUsage
\* The usage parsing of one streamed response of CLI A.  The response is a
\* sequence of SSE events, each the text  data: <json>\n\n ; the text is a
\* sequence of pieces: the prefix "data: ", the two halves of the JSON text
\* and the newlines, so that a chunk may end between any two of them.
MaxEvents == 2
EventKinds == {"message_start", "content_block_delta", "message_delta"}
EventLists == UNION {[1..n -> EventKinds] : n \in 1..MaxEvents}

Piece(a, k) == [a |-> a, k |-> k]
Newline == Piece("newline", "none")
EventText(k) ==
    <<Piece("data: ", "none"), Piece("json1", k), Piece("json2", k), Newline, Newline>>

RECURSIVE TextOf(_)
TextOf(events) ==
    IF events = << >> THEN << >> ELSE EventText(Head(events)) \o TextOf(Tail(events))

\* text.split("\n")
RECURSIVE SplitLines(_)
SplitLines(text) ==
    LET ends == {i \in DOMAIN text : text[i] = Newline}
    IN IF ends = {} THEN <<text>>
       ELSE LET i == CHOOSE j \in ends : \A m \in ends : j <= m
            IN <<SubSeq(text, 1, i - 1)>> \o SplitLines(SubSeq(text, i + 1, Len(text)))

\* text.strip()
RECURSIVE Strip(_)
Strip(text) ==
    IF text = << >> THEN << >>
    ELSE IF Head(text) = Newline THEN Strip(Tail(text))
    ELSE IF text[Len(text)] = Newline THEN Strip(SubSeq(text, 1, Len(text) - 1))
    ELSE text

\* json.loads(text) succeeds: the text is the whole JSON text of one event.
IsJson(text) ==
    /\ Len(text) = 2
    /\ text[1].a = "json1"
    /\ text[2].a = "json2"
    /\ text[1].k = text[2].k

\* The data of the lines that start with "data: " and hold a JSON text.
RECURSIVE SseData(_)
SseData(lines) ==
    IF lines = << >> THEN << >>
    ELSE LET line == Head(lines)
             found == IF /\ line # << >>
                         /\ Head(line).a = "data: "
                         /\ IsJson(Tail(line))
                      THEN <<line[2].k>>
                      ELSE << >>
         IN found \o SseData(Tail(lines))

\* data_list: the SSE data, or the chunk as one plain JSON text when no SSE
\* data was found.
DataList(chunk) ==
    IF SseData(SplitLines(chunk)) # << >> THEN SseData(SplitLines(chunk))
    ELSE IF IsJson(Strip(chunk)) THEN <<Strip(chunk)[1].k>>
    ELSE << >>

\* The usage fields an event of CLI A carries: message_start has
\* message.usage with input_tokens and output_tokens, message_delta has usage
\* with output_tokens.
UsageOfData(usage, k) ==
    CASE k = "message_start" -> [input |-> MaxTokens, output |-> MaxTokens]
      [] k = "message_delta" -> [usage EXCEPT !.output = MaxTokens + 1]
      [] OTHER -> usage

RECURSIVE UsageOfList(_, _)
UsageOfList(usage, data_list) ==
    IF data_list = << >> THEN usage
    ELSE UsageOfList(UsageOfData(usage, Head(data_list)), Tail(data_list))

\* _parse_sse_usage(chunk, "claude_code", usage)
ParseSseUsage(chunk, usage) == UsageOfList(usage, DataList(chunk))

\* The upstream answers with a stream of events.
OpenStream ==
    /\ sse.pc = "idle"
    /\ \E events \in EventLists :
        sse' = [pc |-> "pump", text |-> TextOf(events), collected |-> << >>,
                chunks |-> 0, usage |-> NoUsage]
    /\ UNCHANGED <<now, configVars, healthVars, debug_log, lockVars, logVars, pc, req, hist,
                   route, prep, txn, db_writer, admin>>

\* A chunk arrives: collected_chunks.append(chunk) and the parse of the chunk.
FeedChunk ==
    /\ sse.pc = "pump"
    /\ \E n \in 1..(Len(sse.text) - Len(sse.collected)) :
        LET chunk == SubSeq(sse.text, Len(sse.collected) + 1, Len(sse.collected) + n)
        IN sse' = [sse EXCEPT !.collected = @ \o chunk, !.chunks = @ + 1,
                              !.usage = ParseSseUsage(chunk, @)]
    /\ UNCHANGED <<now, configVars, healthVars, debug_log, lockVars, logVars, pc, req, hist,
                   route, prep, txn, db_writer, admin>>

\* The pump ends (the stream is over, or it breaks off): the finally block
\* parses the joined chunks when chunks came and both counts are still 0.
FinishStream ==
    /\ sse.pc = "pump"
    /\ sse' = [sse EXCEPT !.pc = "done",
                          !.usage = IF sse.chunks > 0 /\ @.input = 0 /\ @.output = 0
                                    THEN ParseSseUsage(sse.collected, @)
                                    ELSE @]
    /\ UNCHANGED <<now, configVars, healthVars, debug_log, lockVars, logVars, pc, req, hist,
                   route, prep, txn, db_writer, admin>>

NextUsage ==
    \/ OpenStream
    \/ FeedChunk
    \/ FinishStream

SpecUsage == InitPrepare /\ [][NextUsage]_vars

\* ------------------------------------------------------------ SpecStats
\* record_request under concurrent requests.  Each request has its own
\* session on the log database.  The INSERT ... ON CONFLICT statement opens a
\* write transaction, which the database grants to one connection at a time;
\* log_db.commit() publishes the transaction and ends it.
MaxCalls == 2

DbWriteFreeAlways == TRUE

\* the database grants the write transaction
DbWriteFree == db_writer = NoTask

\* A request is routed: the provider and CLI its record_request calls name.
StatBegin(t) ==
    /\ txn[t].pc = "idle"
    /\ \E p \in Providers :
        txn' = [txn EXCEPT ![t] = [pc |-> "ready", provider |-> p, cli_type |-> cli_type[p],
                                   calls |-> 0, raised |-> 0, rows |-> {}]]
    /\ UNCHANGED <<now, configVars, healthVars, debug_log, lockVars, logVars, pc, req, hist,
                   route, prep, sse, db_writer, admin>>

\* await self.log_db.execute(INSERT ... ON CONFLICT DO UPDATE): the statement
\* runs on the rows as committed, inside the connection's write transaction;
\* or it raises.
StatExecute(t) ==
    /\ txn[t].pc = "ready"
    /\ txn[t].calls + txn[t].raised < MaxCalls
    /\ \/ /\ DbWriteFree
          /\ \E success \in BOOLEAN, tokens \in Usages :
                txn' = [txn EXCEPT ![t].pc = "written",
                                   ![t].rows = Upsert(usage_daily, txn[t].provider,
                                                      txn[t].cli_type, success, tokens)]
          /\ db_writer' = t
       \/ /\ FALSE \in WriteResults
          /\ txn' = [txn EXCEPT ![t].raised = @ + 1]
          /\ UNCHANGED db_writer
    /\ UNCHANGED <<now, configVars, healthVars, debug_log, lockVars, logVars, pc, req, hist,
                   route, prep, sse, admin>>

\* await self.log_db.commit()
StatCommit(t) ==
    /\ txn[t].pc = "written"
    /\ usage_daily' = txn[t].rows
    /\ txn' = [txn EXCEPT ![t].pc = "ready", ![t].calls = @ + 1, ![t].rows = {}]
    /\ db_writer' = IF db_writer = t THEN NoTask ELSE db_writer
    /\ UNCHANGED <<now, configVars, healthVars, debug_log, lockVars, system_log, request_log,
                   log_db_faulty, pc, req, hist, route, prep, sse, admin>>

InitStats ==
    /\ now = StartTime
    /\ enabled = [p \in Providers |-> TRUE]
    /\ cli_type = [p \in Providers |-> IF p % 2 = 1 THEN "claude_code" ELSE "codex"]
    /\ sort_order = [p \in Providers |-> p]
    /\ failure_threshold = [p \in Providers |-> MaxThreshold]
    /\ blacklist_minutes = [p \in Providers |-> MaxMinutes]
    /\ consecutive_failures = [p \in Providers |-> 0]
    /\ blacklisted_until = [p \in Providers |-> Null]
    /\ debug_log = FALSE
    /\ log_db_faulty \in BOOLEAN
    /\ InitLocks
    /\ InitLogs
    /\ InitRequests

NextStats ==
    \E t \in Tasks :
        \/ StatBegin(t)
        \/ StatExecute(t)
        \/ StatCommit(t)

SpecStats == InitStats /\ [][NextStats]_vars

\* ------------------------------------------------------------ SpecAdmin
\* reset_failures and unblacklist, called by the admin while a request is
\* served.  The admin call runs on a session of its own: it loads the row,
\* assigns the attributes, and db.commit() flushes the attributes whose
\* assigned value differs from the loaded one.
AdminOps == {"reset_failures", "unblacklist"}

\* select(Provider).where(Provider.id == provider_id); "if not provider:
\* return False"
AdminSelect ==
    /\ admin.pc = "idle"
    /\ \E op \in AdminOps, id \in Providers \cup {UnknownId} :
        admin' = IF id \in Providers
                 THEN [pc |-> "loaded", op |-> op, id |-> id,
                       failures |-> consecutive_failures[id],
                       until |-> blacklisted_until[id], result |-> FALSE]
                 ELSE [pc |-> "done", op |-> op, id |-> id,
                       failures |-> 0, until |-> Null, result |-> FALSE]
    /\ UNCHANGED <<now, configVars, healthVars, debug_log, lockVars, logVars, pc, req, hist,
                   route, prep, sse, txn, db_writer>>

\* The UPDATE the unit of work emits for an attribute: the assigned value is
\* written when it differs from the loaded one.
Flushed(column, id, loaded, assigned) ==
    IF assigned # loaded THEN [column EXCEPT ![id] = assigned] ELSE column

\* provider.consecutive_failures = 0 (and provider.blacklisted_until = None
\* in unblacklist); db.commit(); return True
AdminCommit ==
    /\ admin.pc = "loaded"
    /\ consecutive_failures' = Flushed(consecutive_failures, admin.id, admin.failures, 0)
    /\ blacklisted_until' = IF admin.op = "unblacklist"
                            THEN Flushed(blacklisted_until, admin.id, admin.until, Null)
                            ELSE blacklisted_until
    /\ admin' = [admin EXCEPT !.pc = "done", !.result = TRUE]
    /\ hist' = [hist EXCEPT ![admin.id].streak = IF admin.failures # 0 THEN 0 ELSE @]
    /\ UNCHANGED <<now, configVars, debug_log, lockVars, logVars, pc, req,
                   route, prep, sse, txn, db_writer>>

\* Providers in the states the health recorder leaves them in.
InitAdmin ==
    /\ now = StartTime
    /\ enabled = [p \in Providers |-> TRUE]
    /\ cli_type = [p \in Providers |-> "claude_code"]
    /\ sort_order = [p \in Providers |-> p]
    /\ \E n \in 1..MaxThreshold : failure_threshold = [p \in Providers |-> n]
    /\ blacklist_minutes = [p \in Providers |-> MaxMinutes]
    /\ consecutive_failures \in [Providers -> 0..(MaxThreshold - 1)]
    /\ blacklisted_until \in [Providers -> {Null, StartTime + SecondsPerMinute}]
    /\ \A p \in Providers :
        /\ consecutive_failures[p] < failure_threshold[p]
        /\ blacklisted_until[p] # Null => consecutive_failures[p] = 0
    /\ debug_log = FALSE
    /\ log_db_faulty = FALSE
    /\ InitLocks
    /\ InitLogs
    /\ InitRequests

NextAdmin ==
    \/ HealthStep(Client)
    \/ AdminSelect
    \/ AdminCommit

SpecAdmin == InitAdmin /\ [][NextAdmin]_vars

\* ------------------------------------------------------------- SpecLock
\* Concurrent record_failure calls, each for a provider or for an id that has
\* no row.  The event loop runs every task that is ready, the database
\* answers every statement, and an asyncio.Lock wakes its waiters in the
\* order in which they came: a step of a call that is enabled again and again
\* is taken.

\* await provider_service.record_failure(provider_id)
RecordFailureCalled(t) ==
    /\ pc[t] = "idle"
    /\ req[t].n_failure < MaxCalls
    /\ \E id \in LockKeys : req' = [req EXCEPT ![t].provider = id, ![t].site = "exc"]
    /\ pc' = [pc EXCEPT ![t] = "rf_guard"]
    /\ UNCHANGED <<now, configVars, healthVars, debug_log, lockVars, logVars, hist, route, otherVars>>

\* The caller goes on after the call.
RecordFailureReturned(t) ==
    /\ pc[t] = "stats"
    /\ pc' = [pc EXCEPT ![t] = "idle"]
    /\ UNCHANGED <<now, configVars, healthVars, debug_log, lockVars, logVars, req, hist, route, otherVars>>

\* The steps of a call between its locks.
RecordFailureRuns(t) ==
    \/ RfMap(t)
    \/ RfSelect(t)
    \/ RfUpdate(t)
    \/ RfLog(t)

NextLock ==
    \E t \in Tasks :
        \/ RecordFailureCalled(t)
        \/ RfGuard(t)
        \/ RfLock(t)
        \/ RecordFailureRuns(t)
        \/ RecordFailureReturned(t)

SpecLock ==
    /\ InitHealth
    /\ [][NextLock]_vars
    /\ \A t \in Tasks :
        /\ WF_vars(RecordFailureRuns(t))
        /\ SF_vars(RfGuard(t))
        /\ SF_vars(RfLock(t))

\* =============================================================== claims

\* A record_failure call for provider p is under way.
CallInFlight(p) ==
    \E t \in Tasks : /\ req[t].provider = p
                     /\ pc[t] \in {"rf_guard", "rf_map", "rf_lock", "rf_select",
                                   "rf_update", "rf_log"}

\* ------------------------------------------------------------------ C1
\* C1 (blacklist monotonicity): from the zero state, after k < N calls of
\* record_failure and no call of record_success, consecutive_failures = k and
\* blacklisted_until is null; after the N-th call, made at epoch t,
\* consecutive_failures = 0 and blacklisted_until = t + 60*M.
C1_BlacklistMonotonicity ==
    \A p \in Providers :
        LET k == hist[p].run
            N == failure_threshold[p]
        IN /\ (hist[p].only_failures /\ 0 <= k /\ k < N) =>
                consecutive_failures[p] = k /\ blacklisted_until[p] = Null
           /\ (hist[p].only_failures /\ k = N) =>
                /\ consecutive_failures[p] = 0
                /\ blacklisted_until[p] = hist[p].trip_now + 60 * blacklist_minutes[p]

\* A provider of threshold N > 1 and M > 0 after its N-th failure in a row.
C1_Witness ==
    \E p \in Providers :
        /\ hist[p].only_failures
        /\ failure_threshold[p] > 1
        /\ blacklist_minutes[p] > 0
        /\ hist[p].run = failure_threshold[p]
        /\ hist[p].trips = 1

\* ------------------------------------------------------------------ C2
\* C2 as stated (concurrency safety): parallel record_failure calls from the
\* zero state end with consecutive_failures in 0..N-1 and at most one
\* blacklist trip.
C2_AtMostOneTrip ==
    \A p \in Providers :
        (hist[p].only_failures /\ ~CallInFlight(p)) =>
            /\ consecutive_failures[p] \in 0..(failure_threshold[p] - 1)
            /\ hist[p].trips <= 1

\* C2 as amended: consecutive_failures stays in 0..N-1, and a second trip
\* happens only once the blacklist of the first trip has expired: the clock
\* has reached the blacklisted_until the first trip wrote.
C2_OneTripPerBlacklist ==
    \A p \in Providers :
        hist[p].only_failures =>
            /\ consecutive_failures[p] \in 0..(failure_threshold[p] - 1)
            /\ hist[p].trips > 1 => hist[p].first_until <= now

\* Parallel calls of which one tripped and another found the blacklist.
C2_Witness ==
    \E p \in Providers :
        /\ hist[p].only_failures
        /\ ~CallInFlight(p)
        /\ hist[p].trips = 1
        /\ hist[p].skipped >= 1
        /\ blacklisted_until[p] > now

\* ------------------------------------------------------------------ C3
\* C3 as stated (no failure is lost): the number of transitions (increments
\* plus trips) of parallel record_failure calls from the zero state equals
\* the number of calls.
C3_TransitionsEqualCalls ==
    \A p \in Providers :
        (hist[p].only_failures /\ ~CallInFlight(p)) => hist[p].applied = hist[p].calls

\* C3 as amended: every call either makes one transition or returns because
\* it read an active blacklist; no transition is lost (the streak is the
\* transitions modulo N, the trips their quotient), and the transitions
\* equal the calls when there are at most N calls.
C3_NoTransitionLost ==
    \A p \in Providers :
        hist[p].only_failures =>
            /\ hist[p].applied + hist[p].skipped = hist[p].calls
            /\ consecutive_failures[p] = hist[p].applied % failure_threshold[p]
            /\ hist[p].trips = hist[p].applied \div failure_threshold[p]
            /\ hist[p].calls <= failure_threshold[p] => hist[p].applied = hist[p].calls

\* N parallel calls made N transitions and a further one was not counted.
C3_Witness ==
    \E p \in Providers :
        /\ hist[p].only_failures
        /\ ~CallInFlight(p)
        /\ hist[p].applied = failure_threshold[p]
        /\ hist[p].skipped >= 1

\* ------------------------------------------------------------------ C4
\* The calls of record_failure that hold a per-provider mutex or wait for it.
HasLock(t) == req[t].lock # NoLock

\* C4 (serialized per provider): no two record_failure calls of one provider
\* are between their read of the row and their commit; a provider id keeps
\* the mutex it was first given, concurrent calls for one id have the same
\* mutex, and calls for different ids have different ones.
C4_SerializedPerProvider ==
    /\ [](\A t, u \in Tasks :
            (t # u /\ HasLock(t) /\ HasLock(u)) =>
                /\ (req[t].provider = req[u].provider) <=> (req[t].lock = req[u].lock)
                /\ req[t].provider = req[u].provider =>
                      ~(pc[t] = "rf_update" /\ pc[u] = "rf_update"))
    /\ [][\A p \in Providers :
            provider_locks[p] # NoLock => provider_locks'[p] = provider_locks[p]]_vars

\* Two calls for one provider: one between read and commit, one waiting for
\* the same mutex.
C4_Witness ==
    \E t, u \in Tasks :
        /\ t # u
        /\ req[t].provider = req[u].provider
        /\ pc[t] = "rf_update"
        /\ pc[u] = "rf_lock"
        /\ req[u].lock = req[t].lock
        /\ lock_owner[req[t].lock] = t

\* ------------------------------------------------------------------ C5
\* C5 (a late failure does not re-arm the counter): a record_failure call that
\* reads the row of a provider whose blacklisted_until is greater than the
\* current epoch returns, and leaves consecutive_failures, blacklisted_until
\* and the system log as they are.
C5_LateFailureIgnored ==
    [][\A t \in Tasks :
        LET p == req[t].provider
        IN (/\ pc[t] = "rf_select"
            /\ pc'[t] # "rf_select"
            /\ blacklisted_until[p] # Null
            /\ blacklisted_until[p] > now) =>
               /\ pc'[t] = "stats"
               /\ consecutive_failures'[p] = consecutive_failures[p]
               /\ blacklisted_until'[p] = blacklisted_until[p]
               /\ system_log' = system_log]_vars

\* A call has returned on an active blacklist.
C5_Witness ==
    \E p \in Providers :
        /\ hist[p].skipped >= 1
        /\ blacklisted_until[p] # Null
        /\ blacklisted_until[p] > now

\* ------------------------------------------------------------------ C6
\* C6 (any success resets the streak): when record_success returns,
\* consecutive_failures of its provider is 0.
C6_SuccessResetsStreak ==
    [][\A t \in Tasks :
        (pc[t] \in {"rs_read", "rs_commit"} /\ pc'[t] = "stats") =>
            consecutive_failures'[req[t].provider] = 0]_vars

\* ------------------------------------------------------------------ C7
\* A provider select may return at epoch t for CLI c.
Eligible(p, c, t) ==
    /\ enabled[p]
    /\ cli_type[p] = c
    /\ blacklisted_until[p] = Null \/ blacklisted_until[p] <= t

\* C7 (routing eligibility): select never returns a provider that is
\* disabled, of another CLI or blacklisted, and returns null exactly when no
\* provider is eligible.
C7_RoutingEligibility ==
    route.cli_type # "none" =>
        /\ route.result # NoProvider => Eligible(route.result, route.cli_type, route.now)
        /\ route.result = NoProvider <=>
              ~\E p \in Providers : Eligible(p, route.cli_type, route.now)

\* A select that returned a provider and passed over one that is not eligible.
C7_Witness ==
    /\ route.cli_type # "none"
    /\ route.result # NoProvider
    /\ \E q \in Providers : ~Eligible(q, route.cli_type, route.now)

\* ------------------------------------------------------------------ C8
\* C8 (routing determinism): select returns the eligible provider that is
\* least by (sort_order, id).
C8_RoutingDeterminism ==
    LET E == {p \in Providers : Eligible(p, route.cli_type, route.now)}
    IN (route.cli_type # "none" /\ E # {}) =>
          \A q \in E :
             \/ sort_order[route.result] < sort_order[q]
             \/ sort_order[route.result] = sort_order[q] /\ route.result <= q

\* ------------------------------------------------------------------ C9
\* The upstream answered the request successfully: a status < 400 and, for a
\* stream, a clean end of the stream.
AnsweredSuccessfully(t) ==
    /\ req[t].upstream = "response"
    /\ req[t].upstream_status < 400
    /\ req[t].stream => req[t].pump_end = "eof"

\* C9 (persistence failures are fire-and-forget): a request the upstream
\* answered successfully makes no record_failure call and ends with the
\* upstream's status, whatever log or statistics write fails.
C9_PersistenceFireAndForget ==
    \A t \in Tasks :
        AnsweredSuccessfully(t) =>
            /\ pc[t] \notin {"rf_guard", "rf_map", "rf_lock", "rf_select", "rf_update", "rf_log"}
            /\ req[t].n_failure = 0
            /\ pc[t] = "done" => req[t].status = req[t].upstream_status

StreamReturned(t) == req[t].stream /\ req[t].site = "st_fin"

\* C11 (cancellation): when the client of a streaming response disconnects,
\* at any point from the return of the response on (also before the
\* generator is asked for its first chunk), the request ends with the
\* upstream response closed, with a record_failure if the end of the stream
\* had not been reached and with a record_success and no record_failure if
\* it had.
C11_Cancellation ==
    \A t \in Tasks :
        (pc[t] = "done" /\ StreamReturned(t)) =>
            /\ req[t].closed
            /\ req[t].pump_end # "eof" => req[t].n_failure = 1 /\ req[t].n_success = 0
            /\ req[t].pump_end = "eof" => req[t].n_success = 1 /\ req[t].n_failure = 0

\* ----------------------------------------------------------------- C12
\* C12 (two-stage stream timeout): the wait for the first chunk of a response
\* uses stream_first_byte_timeout and every wait after a received chunk
\* stream_idle_timeout; a timeout of a wait ends the pump as a failure with
\* the error frame "First byte timeout" if no chunk had been received and
\* "Idle timeout" otherwise.
C12_TwoStageTimeout ==
    \A t \in Tasks :
        LET r == req[t]
        IN /\ Len(r.waits) \in {Len(r.received), Len(r.received) + 1}
           /\ \A i \in DOMAIN r.waits :
                 r.waits[i] = IF i = 1 THEN "stream_first_byte_timeout"
                              ELSE "stream_idle_timeout"
           /\ r.pump_end = "chunk_timeout" =>
                 /\ r.error_frame = IF r.received = << >> THEN "First byte timeout"
                                    ELSE "Idle timeout"
                 /\ r.forwarded # << >>
                 /\ r.forwarded[Len(r.forwarded)] = r.error_frame
                 /\ ~r.success
                 /\ pc[t] # "pump"
                 /\ r.n_success = 0
                 /\ pc[t] = "done" => r.n_failure = 1

\* A stream that timed out after its first chunk, finalized.
C12_Witness ==
    \E t \in Tasks :
        /\ pc[t] = "done"
        /\ req[t].pump_end = "chunk_timeout"
        /\ Len(req[t].received) = 1
        /\ req[t].waits = <<"stream_first_byte_timeout", "stream_idle_timeout">>
        /\ req[t].error_frame = "Idle timeout"

\* ----------------------------------------------------------------- C13
\* The error frames the generator yields after a timeout.
TimeoutFrames == {"First byte timeout", "Idle timeout", "connection timeout"}

\* C13 as stated (SSE passthrough fidelity): what is forwarded to the client
\* is what was received from the upstream, chunk by chunk, unless an error
\* frame was injected after a timeout.
C13_PassthroughUnlessTimeout ==
    \A t \in Tasks :
        req[t].error_frame \notin TimeoutFrames => req[t].forwarded = req[t].received

\* C13 as amended: what is forwarded is what was received, chunk by chunk,
\* followed by one error frame if the pump ended with a timeout (a timeout
\* frame) or with another exception of the upstream (the "error" frame), and
\* by nothing otherwise.
C13_PassthroughThenFrame ==
    \A t \in Tasks :
        LET r == req[t]
        IN /\ r.pump_end \in {"none", "eof", "cancel"} => r.forwarded = r.received
           /\ r.pump_end \in {"chunk_timeout", "transport_timeout"} =>
                 \E f \in TimeoutFrames : r.forwarded = Append(r.received, f)
           /\ r.pump_end = "error" => r.forwarded = Append(r.received, "error")

\* Two different chunks forwarded in order, then a transport error.
C13_Witness ==
    \E t \in Tasks :
        /\ req[t].pump_end = "error"
        /\ Len(req[t].received) = 2
        /\ req[t].received[1] # req[t].received[2]
        /\ req[t].forwarded = Append(req[t].received, "error")

\* ----------------------------------------------------------------- C14
\* The generator ended the pump on a failure of the upstream stream.
StreamFailed(t) == req[t].pump_end \in {"chunk_timeout", "transport_timeout", "error"}

\* C14 (error propagation by phase): a request that ends before a streaming
\* response was returned ends with 503, 504, 502 or the upstream's status; once
\* a streaming response was returned its status stays the upstream's, and a
\* failure of the stream shows as an error frame at the end of the stream.
C14_ErrorByPhase ==
    \A t \in Tasks :
        /\ (pc[t] = "done" /\ ~StreamReturned(t)) =>
              \/ req[t].status \in {503, 504, 502}
              \/ req[t].upstream = "response" /\ req[t].status = req[t].upstream_status
        /\ StreamReturned(t) =>
              /\ req[t].status = req[t].upstream_status
              /\ StreamFailed(t) =>
                    /\ req[t].forwarded # << >>
                    /\ req[t].forwarded[Len(req[t].forwarded)] = req[t].error_frame
                    /\ req[t].error_frame # "none"

\* ----------------------------------------------------------------- C15
\* C15 (status mapping of a forward): a request ends with 503 when no provider
\* was selected, 504 when the non-streaming upstream call timed out, 502 when
\* the dispatch raised another exception, and the upstream's status otherwise.
C15_StatusMapping ==
    \A t \in Tasks :
        pc[t] = "done" =>
            req[t].status = CASE req[t].provider = NoProvider -> 503
                              [] req[t].upstream = "timeout" -> 504
                              [] req[t].upstream = "exception" -> 502
                              [] OTHER -> req[t].upstream_status

\* ----------------------------------------------------------------- C16
\* The request ended with an error its CLI sees: 502, 504, an upstream status
\* >= 400, or a stream that failed.
CliVisibleError(t) ==
    /\ req[t].provider # NoProvider
    /\ \/ req[t].status \in {502, 504}
       \/ req[t].upstream = "response" /\ req[t].upstream_status >= 400
       \/ StreamFailed(t)

\* C16 (errors mark the provider and are logged): a request that ended with a
\* CLI-visible error has called record_failure and, when debug_log is on, has
\* called create_request_log with success = false.
C16_ErrorsMarkedAndLogged ==
    \A t \in Tasks :
        (pc[t] = "done" /\ CliVisibleError(t)) =>
            /\ req[t].n_failure >= 1
            /\ debug_log =>
                  \E i \in DOMAIN req[t].log_tried : ~req[t].log_tried[i].success

\* ----------------------------------------------------------------- C17
\* C17 (streaming error passthrough): a streaming request the upstream
\* answered with a status >= 400 ends with the upstream response closed, one
\* record_failure, one failed usage count, no pump and the upstream's status.
C17_StreamingErrorPassthrough ==
    \A t \in Tasks :
        (/\ pc[t] = "done"
         /\ req[t].stream
         /\ req[t].upstream = "response"
         /\ req[t].upstream_status >= 400) =>
            /\ req[t].closed
            /\ req[t].n_failure = 1
            /\ req[t].n_success = 0
            /\ req[t].stats = <<[success |-> FALSE, tokens |-> NoUsage]>>
            /\ ~req[t].started
            /\ req[t].forwarded = << >>
            /\ req[t].status = req[t].upstream_status

\* ----------------------------------------------------------------- C18
\* The request log row of a rejected request; NoProvider stands for the
\* provider_name "[NO_PROVIDER]".
RejectedRow ==
    [provider |-> NoProvider, success |-> FALSE, status_code |-> 503,
     input_tokens |-> 0, output_tokens |-> 0]

\* C18 (no-provider rejection): a request for which select_provider returned
\* None ends with 503 after one call of create_request_log with the row of a
\* rejected request, whether or not the row could be written; nothing is sent
\* upstream, and the providers' health and the usage counters are unchanged.
C18_NoProviderRejection ==
    /\ [](\A t \in Tasks :
            /\ pc[t] \notin {"idle", "done"} => req[t].provider # NoProvider
            /\ req[t].provider = NoProvider =>
                  /\ req[t].upstream = "none"
                  /\ req[t].stats = << >>
                  /\ req[t].n_failure = 0)
    /\ [][\A t \in Tasks :
            (pc[t] = "idle" /\ pc'[t] = "done") =>
                /\ req'[t].provider = NoProvider
                /\ req'[t].status = 503
                /\ req'[t].log_tried = <<RejectedRow>>
                /\ \/ request_log'[t] = Append(request_log[t], RejectedRow)
                   \/ log_db_faulty /\ request_log'[t] = request_log[t]
                /\ consecutive_failures' = consecutive_failures
                /\ blacklisted_until' = blacklisted_until
                /\ usage_daily' = usage_daily]_vars

\* A rejected request whose log row could not be written: 503 all the same.
C18_Witness ==
    \E t \in Tasks :
        /\ pc[t] = "done"
        /\ req[t].provider = NoProvider
        /\ req[t].status = 503
        /\ req[t].log_tried = <<RejectedRow>>
        /\ request_log[t] = << >>

\* ----------------------------------------------------------------- C19
\* The events of a record_failure call that changed the row of provider p:
\* the call tripped the blacklist if it left the counter at 0.
FailureEventsOf(p) ==
    IF consecutive_failures[p] = 0
    THEN <<"provider_failure", "provider_blacklist">>
    ELSE <<"provider_failure">>

PlaceOfResult ==
    IF route.result = NoProvider THEN 0
    ELSE CHOOSE i \in DOMAIN route.order : route.order[i] = route.result

\* Provider p is blacklisted at the time of the select.
BlacklistedAtRoute(p) == blacklisted_until[p] # Null /\ blacklisted_until[p] > route.now

HeadersPrepared ==
    \/ prep.pc \in {"body", "classify", "dispatched"}
    \/ prep.pc = "raised" /\ prep.body.kind # "unread"

\* The credential header of a CLI and the value it has to carry.
CredentialHeader(c) == IF c = "gemini" THEN "x-goog-api-key" ELSE "authorization"
CredentialValue(c) == IF c = "gemini" THEN <<ApiKey>> ELSE Bearer(ApiKey)

\* C21 - Header sanitization: whatever headers came in, the upstream headers
\* hold none of the filtered hop-by-hop names; the credential header of the
\* CLI (authorization for A and B, x-goog-api-key for C) is there with the
\* provider's key and not with the client's value, it is the only header that
\* holds the provider's key, and a CLI C request goes out without authorization.
C21_HeaderSanitization ==
    HeadersPrepared =>
        /\ (DOMAIN prep.headers) \cap FILTERED_HEADERS = {}
        /\ CredentialHeader(prep.cli_type) \in DOMAIN prep.headers
        /\ prep.headers[CredentialHeader(prep.cli_type)] = CredentialValue(prep.cli_type)
        /\ prep.headers[CredentialHeader(prep.cli_type)] # ClientValue
        /\ {k \in DOMAIN prep.headers : prep.headers[k] \in {<<ApiKey>>, Bearer(ApiKey)}}
               = {CredentialHeader(prep.cli_type)}
        /\ prep.cli_type = "gemini" => "authorization" \notin DOMAIN prep.headers

\* A dispatched CLI C request that came in with hop-by-hop headers and with
\* credentials of its own in both credential headers.
C21_Witness ==
    /\ prep.pc = "dispatched"
    /\ prep.cli_type = "gemini"
    /\ {"host", "content-length", "authorization", "x-goog-api-key"} \subseteq DOMAIN prep.inbound

\* The model mapping of the request in preparation has run (and returned or
\* raised).
MappingDone == prep.pc \in {"classify", "dispatched", "raised"}

\* The request names a model: in its path (CLI C) or in its body (CLI A, B).
HasModel ==
    IF prep.cli_type = "gemini"
    THEN prep.client_path.matches
    ELSE prep.body.kind = "object" /\ prep.body.model \in ModelNames

\* The targets of the provider's enabled rules.
EnabledTargets ==
    {prep.model_maps[i].target_model :
        i \in {j \in DOMAIN prep.model_maps : prep.model_maps[j].enabled}}

\* C22 - First-match model mapping: a request that names a model is forwarded
\* with the target_model of the first enabled rule that matches it, or, when
\* no enabled rule matches, unchanged: so it is forwarded, and with its own
\* model or with the target of an enabled rule, never of a disabled one.
C22_FirstMatchMapping ==
    (MappingDone /\ HasModel) =>
        /\ prep.raised = "none"
        /\ IF prep.cli_type = "gemini"
           THEN prep.path.model \in {prep.client_path.model} \cup EnabledTargets
           ELSE prep.forward_body.model \in {prep.body.model} \cup EnabledTargets

\* C23 - Model rewrite idempotence: for every rule set and every body, the
\* rewrite yields a body, and the rewrite of that body is the same body.
C23_RewriteIdempotent ==
    (MappingDone /\ prep.cli_type # "gemini") =>
        /\ prep.raised = "none"
        /\ ApplyModelMapping(prep.model_maps, prep.forward_body).raised = "none"
        /\ ApplyModelMapping(prep.model_maps, prep.forward_body).value = prep.forward_body

\* The bodies the rewrite has to pass through: no bytes, not JSON, JSON that
\* is no object, an object without "model" or with a "model" that is no string.
PassThroughBody(body) ==
    \/ body.kind \in {"empty", "invalid", "null", "number", "bool", "string", "list"}
    \/ body.kind = "object" /\ body.model \in {"absent", "nonstring"}

\* C24 - Model rewrite pass-through: for CLI A and B a body with no model to
\* rewrite is forwarded unchanged, and the rewrite raises no error: the
\* request reaches the dispatch.
C24_RewritePassThrough ==
    (MappingDone /\ prep.cli_type # "gemini" /\ PassThroughBody(prep.body)) =>
        /\ prep.raised = "none"
        /\ prep.forward_body = prep.body

\* C25 - Usage parser tolerance: however the stream was cut into chunks, the
\* counts the forwarder ends with (the chunks parsed one by one, then the
\* joined chunks when both counts were still 0) are the counts of one parse
\* of the joined chunks.
C25_UsageParserTolerance ==
    sse.pc = "done" => sse.usage = ParseSseUsage(sse.collected, NoUsage)

\* The rows of a key, and the record_request calls on it that have returned.
RowsOf(p, c) == {r \in usage_daily : r.provider = p /\ r.cli_type = c}

RECURSIVE CallsOf(_, _, _)
CallsOf(S, p, c) ==
    IF S = {} THEN 0
    ELSE LET t == CHOOSE u \in S : TRUE
             n == IF txn[t].pc # "idle" /\ txn[t].provider = p /\ txn[t].cli_type = c
                  THEN txn[t].calls ELSE 0
         IN n + CallsOf(S \ {t}, p, c)

\* C26 - Atomic daily usage upsert: for every key there is at most one row,
\* there is one as soon as a call on the key has returned, its request_count
\* is the number of calls on the key that have returned, however the calls of
\* concurrent requests interleave, and no counter of a row ever decreases.
C26_AtomicUpsert ==
    /\ [](\A p \in Providers, c \in CliTypes :
            /\ Cardinality(RowsOf(p, c)) <= 1
            /\ CallsOf(Tasks, p, c) = 0 => RowsOf(p, c) = {}
            /\ \A r \in RowsOf(p, c) : r.request_count = CallsOf(Tasks, p, c))
    /\ [][\A r \in usage_daily :
            \E s \in usage_daily' :
                /\ s.provider = r.provider /\ s.cli_type = r.cli_type
                /\ s.request_count >= r.request_count
                /\ s.success_count >= r.success_count
                /\ s.failure_count >= r.failure_count
                /\ s.prompt_tokens >= r.prompt_tokens
                /\ s.completion_tokens >= r.completion_tokens]_vars

\* Two requests have made calls on the same key, each at least one and three
\* or more together, and all of them have returned.
C26_Witness ==
    /\ \A t \in Tasks : txn[t].pc = "ready" /\ txn[t].calls >= 1 /\ txn[t].provider = 1
    /\ \E r \in RowsOf(1, "claude_code") : r.request_count >= 3

\* The forward of a routed request ended in success: a status below 400, or a
\* stream that ran to its end.
ForwardSucceeded(t) ==
    \/ ~req[t].stream /\ req[t].upstream = "response" /\ IsSuccessStatus(req[t].upstream_status)
    \/ req[t].stream /\ req[t].pump_end = "eof"

\* The usage row a request leaves when it is the only one of its day.
UsageRow(t, success, tokens) ==
    [provider |-> req[t].provider, cli_type |-> req[t].cli_type, request_count |-> 1,
     success_count |-> IF success THEN 1 ELSE 0, failure_count |-> IF success THEN 0 ELSE 1,
     prompt_tokens |-> tokens.input, completion_tokens |-> tokens.output]

\* C27 - Usage accounting by outcome: a forward that ended in success has
\* added 1 to success_count and the parsed counts to the token counters, a
\* forward that ended in failure has added 1 to failure_count and 0 to the
\* token counters, and success_count + failure_count = request_count in
\* every row.
C27_UsageByOutcome ==
    /\ \A r \in usage_daily : r.success_count + r.failure_count = r.request_count
    /\ (pc[Client] = "done" /\ req[Client].provider # NoProvider) =>
          usage_daily = {UsageRow(Client, ForwardSucceeded(Client),
                                  IF ForwardSucceeded(Client) THEN req[Client].usage
                                  ELSE NoUsage)}

\* C28 - Admin resets: when unblacklist(id) returns, consecutive_failures of
\* the provider is 0 and blacklisted_until is null, so the router does not
\* hold the provider to be blacklisted; when reset_failures(id) returns,
\* consecutive_failures is 0 and blacklisted_until is what it was; a call
\* with an unknown id returns false and changes no provider.
C28_AdminResets ==
    [][/\ (admin.pc = "loaded" /\ admin'.pc = "done") =>
            /\ admin'.result
            /\ consecutive_failures'[admin.id] = 0
            /\ admin.op = "unblacklist" =>
                  /\ blacklisted_until'[admin.id] = Null
                  /\ ~(blacklisted_until'[admin.id] # Null /\ blacklisted_until'[admin.id] > now')
            /\ admin.op = "reset_failures" =>
                  blacklisted_until'[admin.id] = blacklisted_until[admin.id]
       /\ (admin.pc = "idle" /\ admin'.pc = "done") =>
            /\ ~admin'.result
            /\ consecutive_failures' = consecutive_failures
            /\ blacklisted_until' = blacklisted_until]_vars

\* C29 - Request-path frame: a step of a request (routing, forwarding,
\* record_success, record_failure) changes no provider field but
\* consecutive_failures and blacklisted_until, and these only of the
\* provider selected for the request that takes the step.
C29_RequestPathFrame ==
    [][/\ enabled' = enabled
       /\ cli_type' = cli_type
       /\ sort_order' = sort_order
       /\ failure_threshold' = failure_threshold
       /\ blacklist_minutes' = blacklist_minutes
       /\ \A p \in Providers :
            (\/ consecutive_failures'[p] # consecutive_failures[p]
             \/ blacklisted_until'[p] # blacklisted_until[p]) =>
                \E t \in Tasks : pc'[t] # pc[t] /\ req[t].provider = p]_vars

\* Both providers are in use, and record_failure has written the row of
\* provider 1 while the row of provider 2 is as it was created.
C29_Witness ==
    /\ \E t \in Tasks : req[t].provider = 1 /\ pc[t] = "rf_log"
    /\ \E t \in Tasks : req[t].provider = 2 /\ pc[t] = "dispatch"
    /\ blacklisted_until[1] # Null
    /\ consecutive_failures[2] = 0 /\ blacklisted_until[2] = Null

\* C30 - Stream classification: a request of CLI A or B is dispatched to the
\* streaming sub-protocol exactly when its body is a JSON object whose
\* "stream" is the boolean true; a request of CLI C exactly when its path
\* contains ":streamGenerateContent".
C30_StreamClassification ==
    prep.pc = "dispatched" =>
        (prep.is_stream <=>
            IF prep.cli_type = "gemini"
            THEN prep.client_path.streaming
            ELSE prep.body.kind = "object" /\ prep.body.stream = "true")

\* C31 - Counter range: however record_failure, record_success,
\* reset_failures and unblacklist interleave on a provider,
\* 0 <= consecutive_failures < failure_threshold.
C31_CounterRange ==
    \A p \in Providers :
        /\ 0 <= consecutive_failures[p]
        /\ consecutive_failures[p] < failure_threshold[p]

\* An admin call on a provider has returned True, and a record_success and an
\* applied record_failure of a request have written the same provider.
C31_Witness ==
    /\ admin.pc = "done"
    /\ admin.result
    /\ hist[admin.id].applied >= 1
    /\ ~hist[admin.id].only_failures

\* C32 - Blacklisted implies zero streak: in every reachable state a provider
\* whose blacklisted_until is strictly greater than the current epoch has
\* consecutive_failures = 0.
C32_BlacklistedZeroStreak ==
    \A p \in Providers :
        (blacklisted_until[p] # Null /\ blacklisted_until[p] > now)
            => consecutive_failures[p] = 0

\* A record_failure call has tripped a provider that is still blacklisted, and
\* a later record_failure call on it has been skipped.
C32_Witness ==
    \E p \in Providers :
        /\ hist[p].trips >= 1
        /\ hist[p].skipped >= 1
        /\ blacklisted_until[p] # Null
        /\ blacklisted_until[p] > now

\* Task t takes a step of record_success.
RecordSuccessStep(t) == pc[t] \in {"rs_read", "rs_commit"} /\ pc'[t] # pc[t]

\* C33 - record_success never changes blacklisted_until: no step of a
\* record_success call, however it interleaves with record_failure calls on
\* the same provider, changes blacklisted_until of any provider; and a step
\* after which a blacklisted provider is eligible again is the passing of
\* time or the commit of an unblacklist call.
C33_SuccessKeepsBlacklist ==
    [][/\ \A t \in Tasks : RecordSuccessStep(t) => blacklisted_until' = blacklisted_until
       /\ \A p \in Providers :
            (IsBlacklisted(p, now) /\ ~(IsBlacklisted(p, now))')
                => \/ now' > now
                   \/ admin.pc = "loaded" /\ admin.op = "unblacklist" /\ admin'.pc = "done"]_vars

\* A request routed before the trip of its provider is inside record_success
\* (it has read a streak to reset and its commit is next) while the provider
\* is blacklisted by the trip.
C33_Witness ==
    \E t \in Tasks :
        /\ pc[t] = "rs_commit"
        /\ hist[req[t].provider].trips >= 1
        /\ IsBlacklisted(req[t].provider, now)

\* C34 - A provider is blacklisted only after a full streak: a record_failure
\* call trips the blacklist only as the failure_threshold-th failure counted
\* for the provider since the last record_success, reset_failures, unblacklist
\* or trip that wrote consecutive_failures = 0; failures that alternate with
\* successes (threshold >= 2) never blacklist the provider.
C34_TripOnlyAfterFullStreak ==
    [][\A p \in Providers :
          hist'[p].trips > hist[p].trips
              => hist[p].streak + 1 = failure_threshold[p]]_vars

\* select_provider would pass over provider p in the current state.
PassedOver(p) ==
    \E o \in QueryOrders(cli_type[p]) :
        \E i \in DOMAIN SkippedOf(o, now) : SkippedOf(o, now)[i] = p

\* C35 - Blacklist expiry: a step that brings the epoch to blacklisted_until
\* or beyond makes a blacklisted provider eligible to the router again, with
\* no success or admin call, and its consecutive_failures is then 0; every
\* trip takes failure_threshold counted failures of its own; with
\* blacklist_minutes = 0 a trip resets the counter and the provider is never
\* passed over by the router.
C35_BlacklistExpiry ==
    /\ [](\A p \in Providers :
            /\ hist[p].applied >= hist[p].trips * failure_threshold[p]
            /\ blacklist_minutes[p] = 0 => ~PassedOver(p))
    /\ [][\A p \in Providers :
            /\ (IsBlacklisted(p, now) /\ now' >= blacklisted_until[p])
                  => /\ ~PassedOver(p)'
                     /\ consecutive_failures'[p] = 0
            /\ (blacklist_minutes[p] = 0 /\ hist'[p].trips > hist[p].trips)
                  => consecutive_failures'[p] = 0]_vars

\* The epoch has just reached the blacklisted_until that a trip wrote.
C35_Witness ==
    \E p \in Providers :
        /\ hist[p].trips >= 1
        /\ blacklist_minutes[p] > 0
        /\ now = blacklisted_until[p]
        /\ hist[p].applied = failure_threshold[p]

\* C36 - Exactly-once accounting: when no persistence write fails, a request
\* for which a provider was selected has, at its end, made exactly one health
\* call (record_success or record_failure) and exactly one record_request
\* call, on every path.
C36_ExactlyOnceAccounting ==
    \A t \in Tasks :
        (pc[t] = "done" /\ req[t].provider # NoProvider /\ ~log_db_faulty) =>
            /\ req[t].n_success + req[t].n_failure = 1
            /\ Len(req[t].stats) = 1

\* The synthetic SSE error frames of stream_generator, and the places of a
\* response at which one was sent.
SyntheticFrames == TimeoutFrames \cup {"error"}
FramePlaces(t) == {i \in DOMAIN req[t].forwarded : req[t].forwarded[i] \in SyntheticFrames}

\* C37 - The synthetic error frame is last and unique: a streaming response
\* carries at most one synthetic error frame, nothing is forwarded after it,
\* and a response in which it was sent is finalized as a failure: it never
\* calls record_success and its statistics count a failure.
C37_ErrorFrameLastAndUnique ==
    \A t \in Tasks :
        /\ Cardinality(FramePlaces(t)) <= 1
        /\ FramePlaces(t) \subseteq {Len(req[t].forwarded)}
        /\ FramePlaces(t) # {} =>
              /\ pc[t] \notin {"pump", "rs_read", "rs_commit"}
              /\ req[t].n_success = 0
              /\ pc[t] \in {"stats", "done"} => req[t].n_failure >= 1
              /\ \A i \in DOMAIN req[t].stats : ~req[t].stats[i].success

\* A response that forwarded two chunks, then an idle-timeout frame, and was
\* finalized with record_failure.
C37_Witness ==
    \E t \in Tasks :
        /\ pc[t] = "done"
        /\ Len(req[t].forwarded) = 3
        /\ req[t].forwarded[3] = "Idle timeout"
        /\ req[t].n_failure = 1
        /\ req[t].n_success = 0

\* Task t is inside a record_failure call; the locks task t holds.
InRecordFailure(t) == pc[t] \in {"rf_guard", "rf_map", "rf_lock", "rf_select", "rf_update", "rf_log"}
LocksHeld(t) == {l \in LockIds : lock_owner[l] = t}

\* C38 - Lock progress: the map-guard mutex is never held by a task that
\* waits for a per-provider mutex, no task holds two per-provider mutexes,
\* and under fair scheduling every record_failure call acquires its mutex
\* and returns with every lock released, also when it returns early for an
\* unknown provider id or for a provider already blacklisted.
C38_LockProgress ==
    /\ [](\A t \in Tasks :
            /\ pc[t] = "rf_lock" => locks_lock # t
            /\ Cardinality(LocksHeld(t)) <= 1
            /\ ~InRecordFailure(t) => LocksHeld(t) = {} /\ locks_lock # t)
    /\ \A t \in Tasks :
            /\ (pc[t] = "rf_guard") ~> (pc[t] = "rf_select" /\ LocksHeld(t) = {req[t].lock})
            /\ InRecordFailure(t) ~> (pc[t] = "stats" /\ LocksHeld(t) = {} /\ locks_lock # t)

\* A call for an unknown id and a call that found its provider blacklisted
\* have both returned, and the locks they took are free.
C38_Witness ==
    \E t, u \in Tasks :
        /\ pc[t] = "stats"
        /\ req[t].provider = UnknownId
        /\ provider_locks[UnknownId] # NoLock
        /\ lock_owner[provider_locks[UnknownId]] = NoTask
        /\ pc[u] = "stats"
        /\ req[u].provider \in Providers
        /\ hist[req[u].provider].skipped >= 1
        /\ lock_owner[provider_locks[req[u].provider]] = NoTask

\* C39 - debug_log gating: a request that was forwarded to a provider ends with
\* no RequestLog row, and none attempted, when debug_log is off, and with
\* exactly one RequestLog row when debug_log is on.
C39_DebugLogGating ==
    \A t \in Tasks :
        (pc[t] = "done" /\ req[t].provider # NoProvider) =>
            /\ ~debug_log => request_log[t] = << >> /\ req[t].log_tried = << >>
            /\ debug_log => Len(request_log[t]) = 1

====
